---- MODULE Spec2Model ----
(***************************************************************************)
(* Model of the ETL scripts of DataManagementProject: text normalization   *)
(* and song-id generation (tracks_cleaning_2.py, charts_cleaning_2.py,     *)
(* charts_cleaning_1.py), deduplication (tracks_cleaning_2.py), the artist *)
(* merge (artists_cleaning_2.py), the artist table (artists_cleaning_1.py),*)
(* the append of popularity rows (merge_tracks_and_popularity.py), the     *)
(* main-artist extraction (tracks_cleaning_1.py), the artist-name cleaning *)
(* of the charts (charts_cleaning_1.py, charts_cleaning_2.py) and the      *)
(* trimming of the chart lines (charts_cleaning_3.py).                     *)
(*                                                                         *)
(* A text is a sequence of code points.  Each code point is named by a     *)
(* string; the alphabet holds one representative of every class of code    *)
(* point the scripts treat differently.                                    *)
(***************************************************************************)
EXTENDS Integers, Sequences, FiniteSets, TLC

\* ------------------------------------------------------------------ bounds

\* Longest text given to normalize_text in SpecNorm.
MaxLen == 3

\* Longest song and artist text given to generate_song_id in SpecKey.
MaxFieldLen == 1

\* Most rows of the table given to remove_duplicates_and_generate_ids.
MaxRows == 3

\* Most rows of the base and of the supplementary table given to merge_artists.
MaxBaseRows == 2
MaxTodoRows == 2

\* Most rows of tracks_final.csv and of charts_final.csv given to
\* process_csv_files.
MaxTracksRows == 2
MaxChartsRows == 1

\* Most rows of tracks_file and of popularity_file given to merge_csv_files.
MaxAppendRows == 2

\* Most rows of the file given to process_music_csv.
MaxMusicRows == 2

\* Most characters of charts_processed.csv given to charts_cleaning_3.py.
MaxFileLen == 5

\* Most pieces of an artist cell given to clean_artist_name.
MaxPieces == 4

\* ------------------------------------------------------------ code points

\* "e"/"E": ASCII letter; "eacute"/"Eacute": U+00E9/U+00C9, precomposed
\* letters with a canonical decomposition; "acute": U+0301, a combining
\* mark (category Mn); "oslash": U+00F8, a non-ASCII letter with no
\* decomposition; "1": digit; " " and "tab": whitespace; "_": underscore;
\* "|": ASCII punctuation.
Alphabet == {"e", "E", "eacute", "Eacute", "acute", "oslash", "1", " ", "tab", "_", "|"}

\* pandas' missing value (NaN / None): a token that is no text.
NaN == <<"NaN">>

\* Python's None, returned by a function that gives no result.
None == <<"None">>

RECURSIVE TextsOfLen(_)
TextsOfLen(n) ==
    IF n = 0 THEN {<<>>}
    ELSE {Append(t, c) : t \in TextsOfLen(n - 1), c \in Alphabet}

TextsUpTo(n) == UNION {TextsOfLen(k) : k \in 0..n}

\* pd.isna(text)
IsNa(text) == text = NaN

\* str.lower() on one code point
LowerChar(c) ==
    CASE c = "E" -> "e"
      [] c = "Eacute" -> "eacute"
      [] OTHER -> c

\* str(text).lower()
Lower(text) == [i \in 1..Len(text) |-> LowerChar(text[i])]

\* Canonical decomposition of one code point.
DecomposeChar(c) ==
    CASE c = "eacute" -> <<"e", "acute">>
      [] c = "Eacute" -> <<"E", "acute">>
      [] OTHER -> <<c>>

\* unicodedata.normalize('NFD', text)
RECURSIVE NFD(_)
NFD(text) ==
    IF text = <<>> THEN <<>>
    ELSE DecomposeChar(Head(text)) \o NFD(Tail(text))

\* unicodedata.category(char) == 'Mn'
IsMn(c) == c = "acute"

\* \s of the re module, and the separators of str.split()
IsSpace(c) == c \in {" ", "tab"}

\* \w of the re module on str patterns: alphanumeric code points and "_"
IsWord(c) == c \in {"e", "E", "eacute", "Eacute", "oslash", "1", "_"}

\* [a-z0-9]
IsAsciiLowerOrDigit(c) == c \in {"e", "1"}

\* ''.join(char for char in text if unicodedata.category(char) != 'Mn')
DropMn(text) == SelectSeq(text, LAMBDA c : ~IsMn(c))

\* re.sub(r'[^\w\s]', '', text)
DropNonWord(text) == SelectSeq(text, LAMBDA c : IsWord(c) \/ IsSpace(c))

\* re.sub(r'[^a-z0-9\s]', '', text)
DropNonAscii(text) == SelectSeq(text, LAMBDA c : IsAsciiLowerOrDigit(c) \/ IsSpace(c))

\* str.strip(): whitespace removed at both ends
RECURSIVE LStrip(_)
LStrip(text) ==
    IF text # <<>> /\ IsSpace(Head(text)) THEN LStrip(Tail(text)) ELSE text

RECURSIVE RStrip(_)
RStrip(text) ==
    IF text # <<>> /\ IsSpace(text[Len(text)])
    THEN RStrip(SubSeq(text, 1, Len(text) - 1))
    ELSE text

Strip(text) == LStrip(RStrip(text))

\* text.split(): the maximal runs of non-whitespace code points, in order
RECURSIVE Split(_)
Split(text) ==
    LET t == LStrip(text)
        RECURSIVE WordLen(_)
        WordLen(u) == IF u = <<>> \/ IsSpace(Head(u)) THEN 0 ELSE 1 + WordLen(Tail(u))
    IN  IF t = <<>> THEN <<>>
        ELSE <<SubSeq(t, 1, WordLen(t))>> \o Split(SubSeq(t, WordLen(t) + 1, Len(t)))

\* sep.join(words)
RECURSIVE Join(_, _)
Join(sep, words) ==
    IF words = <<>> THEN <<>>
    ELSE IF Len(words) = 1 THEN words[1]
    ELSE words[1] \o sep \o Join(sep, Tail(words))

\* ' '.join(text.split())
CollapseSpaces(text) == Join(<<" ">>, Split(text))

\* normalize_text of tracks_cleaning_2.py, with the NFD step moved after the
\* two filters (a variant used to test the idempotence property).
NormalizeTextTracksDecomposeLate(text) ==
    IF IsNa(text) THEN <<>>
    ELSE Strip(CollapseSpaces(NFD(DropNonWord(DropMn(Lower(text))))))

\* normalize_text of tracks_cleaning_2.py
NormalizeTextTracks(text) ==
    IF IsNa(text) THEN <<>>
    ELSE Strip(CollapseSpaces(DropNonWord(DropMn(NFD(Lower(text))))))

\* normalize_text of charts_cleaning_2.py
NormalizeTextCharts(text) ==
    IF IsNa(text) THEN <<>>
    ELSE CollapseSpaces(DropNonAscii(Lower(text)))

\* hashlib.md5(s.encode('utf-8')).hexdigest(): the 32 hex digits of the
\* digest of s.  The digest is kept symbolic, as the text it was computed
\* from together with the number of hex digits kept, so two digests are
\* equal exactly when they come from the same text (MD5 taken to be
\* collision-free) and have the same length.
Md5HexDigest(s) == <<"md5", 32, s>>

\* Number of leading hex digits charts_cleaning_1.py keeps.
IdPrefixLen == 10

\* digest[n:] in place of digest[:n] (a mutation of HexPrefix).
HexSuffix(digest, n) == <<digest[1], IF n < digest[2] THEN digest[2] - n ELSE 0, digest[3]>>

\* digest[:n]
HexPrefix(digest, n) == <<digest[1], IF n < digest[2] THEN n ELSE digest[2], digest[3]>>

\* The two normalized fields joined with no delimiter (a mutation of
\* CombinedTracks).
CombinedTracksNoDelimiter(song, artist) ==
    NormalizeTextTracks(song) \o NormalizeTextTracks(artist)

\* f"{normalized_song}|{normalized_artist}" of tracks_cleaning_2.py
CombinedTracks(song, artist) ==
    NormalizeTextTracks(song) \o <<"|">> \o NormalizeTextTracks(artist)

\* f"{normalized_song}|{normalized_artist}" of charts_cleaning_2.py
CombinedCharts2(song, artist) ==
    NormalizeTextCharts(song) \o <<"|">> \o NormalizeTextCharts(artist)

\* str(x).lower().strip() of charts_cleaning_1.py
NormalizeCharts1(x) == Strip(Lower(x))

\* f"{str(song).lower().strip()}_{str(artist).lower().strip()}"
CombinedCharts1(song, artist) ==
    NormalizeCharts1(song) \o <<"_">> \o NormalizeCharts1(artist)

\* generate_song_id of tracks_cleaning_2.py hashing the raw fields (a variant
\* used to test that the id depends on the normalized fields only).
GenerateSongIdTracksRaw(song, artist) ==
    Md5HexDigest(song \o <<"|">> \o artist)

\* generate_song_id of tracks_cleaning_2.py
GenerateSongIdTracks(song, artist) == Md5HexDigest(CombinedTracks(song, artist))

\* generate_song_id of charts_cleaning_2.py
GenerateSongIdCharts2(song, artist) == Md5HexDigest(CombinedCharts2(song, artist))

\* generate_song_id of charts_cleaning_1.py
GenerateSongIdCharts1(song, artist) ==
    IF IsNa(song) \/ IsNa(artist) THEN None
    ELSE HexPrefix(Md5HexDigest(CombinedCharts1(song, artist)), IdPrefixLen)

\* --------------------------------------------------------------- tables

\* A table is a sequence of rows; a row is a record of its columns.  A row of
\* a frame carries its pandas index label in the field "index".

\* pd.read_csv gives the rows the labels 0, 1, ... (RangeIndex)
ReadCsv(rows) ==
    [i \in 1..Len(rows) |->
        [index |-> i - 1, name |-> rows[i].name, artists |-> rows[i].artists]]

\* df['song_id'] = df.apply(lambda row: generate_song_id(row[song_column],
\* row[artist_column]), axis=1)
WithSongId(frame) ==
    [i \in 1..Len(frame) |->
        [index |-> frame[i].index, name |-> frame[i].name,
         artists |-> frame[i].artists,
         song_id |-> GenerateSongIdTracks(frame[i].name, frame[i].artists)]]

\* The columns normalized_song and normalized_artist of one row.
NormalizedKey(row) ==
    <<NormalizeTextTracks(row.name), NormalizeTextTracks(row.artists)>>

\* The duplicate mask taken on the raw columns instead of the normalized ones
\* (a mutation of DuplicateMask).
DuplicateMaskRaw(frame) ==
    [i \in 1..Len(frame) |->
        \E j \in 1..(i - 1) :
            <<frame[j].name, frame[j].artists>> = <<frame[i].name, frame[i].artists>>]

\* df.duplicated(subset=['normalized_song', 'normalized_artist'], keep='first')
DuplicateMask(frame) ==
    [i \in 1..Len(frame) |->
        \E j \in 1..(i - 1) : NormalizedKey(frame[j]) = NormalizedKey(frame[i])]

\* frame[~mask]: the rows whose mask is false, in order
RECURSIVE SelectUnmasked(_, _)
SelectUnmasked(frame, mask) ==
    IF frame = <<>> THEN <<>>
    ELSE (IF mask[1] THEN <<>> ELSE <<Head(frame)>>)
         \o SelectUnmasked(Tail(frame), Tail(mask))

\* df[~duplicate_mask].copy()
Deduplicated(frame) == SelectUnmasked(frame, DuplicateMask(frame))

\* df_deduplicated['song_id'].nunique(): the number of distinct song ids
NUnique(frame) == Cardinality({frame[i].song_id : i \in 1..Len(frame)})

\* to_csv(output_file, index=False): the rows without their index labels
ToCsv(frame) ==
    [i \in 1..Len(frame) |->
        [song_id |-> frame[i].song_id, name |-> frame[i].name,
         artists |-> frame[i].artists]]

\* A file: not written, or written with the given rows.
NoFile == [written |-> FALSE]
File(rows) == [written |-> TRUE, rows |-> rows]

\* What remove_duplicates_and_generate_ids returns: None, or a frame.
ReturnedNone == [returned |-> "None"]
ReturnedFrame(frame) == [returned |-> "frame", rows |-> frame]

\* df["artist_name"].str.strip().str.lower()
MergeKey(artist_name) == Lower(Strip(artist_name))

\* The rows of df_todo whose key is that of the base row, in df_todo's order.
Matches(base_row, todo) ==
    SelectSeq(todo, LAMBDA t : MergeKey(t.artist_name) = MergeKey(base_row.artist_name))

\* JoinedRows taking artist_id from the matching row of df_todo (a mutation
\* of JoinedRows).
JoinedRowsTodoId(base_row, todo) ==
    LET m == Matches(base_row, todo)
    IN  IF m = <<>>
        THEN <<[artist_id |-> base_row.artist_id, artist_name |-> base_row.artist_name,
                artist_genre |-> NaN, artist_img |-> NaN, country |-> NaN]>>
        ELSE [k \in 1..Len(m) |->
                [artist_id |-> m[k].artist_id, artist_name |-> base_row.artist_name,
                 artist_genre |-> m[k].artist_genre, artist_img |-> m[k].artist_img,
                 country |-> m[k].country]]

\* The rows the left join gives for one base row: one row per matching row
\* of df_todo, or one row with blank columns when nothing matches.
JoinedRows(base_row, todo) ==
    LET m == Matches(base_row, todo)
    IN  IF m = <<>>
        THEN <<[artist_id |-> base_row.artist_id, artist_name |-> base_row.artist_name,
                artist_genre |-> NaN, artist_img |-> NaN, country |-> NaN]>>
        ELSE [k \in 1..Len(m) |->
                [artist_id |-> base_row.artist_id, artist_name |-> base_row.artist_name,
                 artist_genre |-> m[k].artist_genre, artist_img |-> m[k].artist_img,
                 country |-> m[k].country]]

\* df_base.set_index("__key__").join(df_todo_subset, how="left")
\*        .reset_index(drop=True)[ordered_cols]
RECURSIVE LeftJoin(_, _)
LeftJoin(base, todo) ==
    IF base = <<>> THEN <<>>
    ELSE JoinedRows(Head(base), todo) \o LeftJoin(Tail(base), todo)

\* Series.drop_duplicates(): the first occurrence of every value, in order
RECURSIVE DropDuplicates(_)
DropDuplicates(values) ==
    IF values = <<>> THEN <<>>
    ELSE LET init == DropDuplicates(SubSeq(values, 1, Len(values) - 1))
             last == values[Len(values)]
         IN  IF \E i \in 1..Len(init) : init[i] = last THEN init ELSE Append(init, last)

\* Overlap without drop_duplicates() (a mutation of Overlap).
OverlapWithRepeats(base, todo) ==
    LET both == SelectSeq(base, LAMBDA b : Matches(b, todo) # <<>>)
    IN  [i \in 1..Len(both) |-> both[i].artist_name]

\* df_base[df_base["__key__"].isin(df_todo["__key__"])]["artist_name"]
\*        .drop_duplicates()
Overlap(base, todo) ==
    LET both == SelectSeq(base, LAMBDA b : Matches(b, todo) # <<>>)
    IN  DropDuplicates([i \in 1..Len(both) |-> both[i].artist_name])

\* All sequences of at most n elements of S.
RECURSIVE SeqsOfLen(_, _)
SeqsOfLen(S, n) ==
    IF n = 0 THEN {<<>>}
    ELSE {Append(q, x) : q \in SeqsOfLen(S, n - 1), x \in S}

SeqsUpTo(S, n) == UNION {SeqsOfLen(S, k) : k \in 0..n}

\* -------------------------------------------- artists_cleaning_1.py

\* The Unicode code point of a character, which orders Python strings.
CodePoint(c) ==
    CASE c = "tab" -> 9
      [] c = " " -> 32
      [] c = "," -> 44
      [] c = "1" -> 49
      [] c = "E" -> 69
      [] c = "_" -> 95
      [] c = "e" -> 101
      [] c = "|" -> 124
      [] c = "Eacute" -> 201
      [] c = "eacute" -> 233
      [] c = "oslash" -> 248
      [] c = "acute" -> 769

\* a < b on Python strings
RECURSIVE TextLess(_, _)
TextLess(a, b) ==
    IF b = <<>> THEN FALSE
    ELSE IF a = <<>> THEN TRUE
    ELSE IF Head(a) # Head(b) THEN CodePoint(Head(a)) < CodePoint(Head(b))
    ELSE TextLess(Tail(a), Tail(b))

\* sorted(list(texts))
RECURSIVE Sorted(_)
Sorted(texts) ==
    IF texts = {} THEN <<>>
    ELSE LET least == CHOOSE t \in texts : \A u \in texts \ {t} : TextLess(t, u)
         IN  <<least>> \o Sorted(texts \ {least})

\* str(text).split(sep): the pieces between the separators, the empty ones
\* included
RECURSIVE SplitOn(_, _)
SplitOn(text, sep) ==
    IF \A i \in 1..Len(text) : text[i] # sep THEN <<text>>
    ELSE LET at == CHOOSE i \in 1..Len(text) :
                      text[i] = sep /\ \A j \in 1..(i - 1) : text[j] # sep
         IN  <<SubSeq(text, 1, at - 1)>> \o SplitOn(SubSeq(text, at + 1, Len(text)), sep)

\* [artist.strip() for artist in str(artists_str).split(',')]
StrippedPieces(artists_str) ==
    LET pieces == SplitOn(artists_str, ",")
    IN  [k \in 1..Len(pieces) |-> Strip(pieces[k])]

\* The set an artists column adds to: the pieces of every cell that is not
\* missing (dropna()).
ArtistsOf(column) ==
    UNION {{StrippedPieces(column[i])[k] : k \in 1..Len(StrippedPieces(column[i]))} :
              i \in {j \in 1..Len(column) : ~IsNa(column[j])}}

\* all_artists taken from the tracks table alone (a mutation of AllArtists).
AllArtistsOfTracksOnly(tracks, charts) == Sorted(ArtistsOf(tracks))

\* sorted(list(tracks_artists.union(charts_artists)))
AllArtists(tracks, charts) == Sorted(ArtistsOf(tracks) \cup ArtistsOf(charts))

\* generate_artist_id(artist_name)
GenerateArtistId(artist_name) == Md5HexDigest(Lower(Strip(artist_name)))

\* artists_df: one row per artist of all_artists, in its order
ArtistsFrame(all_artists) ==
    [k \in 1..Len(all_artists) |->
        [artist_id |-> GenerateArtistId(all_artists[k]), artist_name |-> all_artists[k]]]

\* get_artist_ids(artists_str): the ids of the pieces that are keys of
\* artist_to_id, joined with ','; None for a missing cell or when no piece
\* has an id.  The joined text is kept as the list of the digests it holds.
GetArtistIds(artists_str, all_artists) ==
    IF IsNa(artists_str) THEN None
    ELSE LET artists == StrippedPieces(artists_str)
             known == SelectSeq(artists,
                        LAMBDA a : \E k \in 1..Len(all_artists) : all_artists[k] = a)
             ids == [k \in 1..Len(known) |-> GenerateArtistId(known[k])]
         IN  IF ids # <<>> THEN <<"joined", ids>> ELSE None

\* df[column].apply(get_artist_ids) stored as the column artist_id
WithArtistId(column, all_artists) ==
    [i \in 1..Len(column) |->
        [artists |-> column[i], artist_id |-> GetArtistIds(column[i], all_artists)]]

\* --------------------------------- merge_tracks_and_popularity.py

\* The keys of the dictionary create_column_mapping() returns.
MappedPopColumns ==
    {"track_id", "track_name", "artist_name", "acousticness", "danceability",
     "duration_ms", "energy", "instrumentalness", "key", "liveness", "loudness",
     "mode", "speechiness", "tempo", "time_signature", "valence", "year"}

\* create_column_mapping() with every column mapped to the tracks column of
\* the same name (a mutation of ColumnMapping).
ColumnMappingSameName == [pop_col \in MappedPopColumns |-> pop_col]

\* create_column_mapping(): popularity.csv column -> tracks.csv column
ColumnMapping ==
    [pop_col \in MappedPopColumns |->
        CASE pop_col = "track_id" -> "id"
          [] pop_col = "track_name" -> "name"
          [] pop_col = "artist_name" -> "artists"
          [] OTHER -> pop_col]

\* expected_tracks_cols and expected_pop_cols of validate_files
ExpectedTracksCols ==
    {"id", "name", "album", "album_id", "artists", "artist_ids", "track_number",
     "disc_number", "explicit", "danceability", "energy", "key", "loudness",
     "mode", "speechiness", "acousticness", "instrumentalness", "liveness",
     "valence", "tempo", "duration_ms", "time_signature", "year", "release_date"}
ExpectedPopCols ==
    {"artist_name", "track_id", "track_name", "acousticness", "danceability",
     "duration_ms", "energy", "instrumentalness", "key", "liveness", "loudness",
     "mode", "speechiness", "tempo", "time_signature", "valence", "popularity",
     "year"}

\* A table read by pd.read_csv: its columns and its rows, each row a function
\* from the columns to cells.
Table(columns, rows) == [columns |-> columns, rows |-> rows]
NoTable == Table({}, <<>>)

\* The cell of the row tagged tag in the column col of a file: a value that
\* names its origin, or NaN for the empty cell (the row "r2" has no year).
Cell(file, tag, col) ==
    IF tag = "r2" /\ col = "year" THEN NaN ELSE <<file, tag, col>>

\* One row of a file with the given columns.
RowOf(file, tag, columns) == [col \in columns |-> Cell(file, tag, col)]

\* The tables pd.read_csv can give for a file with the given columns.
TablesOf(file, columns, n) ==
    {Table(columns, rows) :
        rows \in SeqsUpTo({RowOf(file, tag, columns) : tag \in {"r1", "r2"}}, n)}

\* The columns reported as missing (lines 67-73).
NoWarnings == [popularity |-> {}, tracks |-> {}]
MissingColumns(tracks, popularity) ==
    [popularity |-> {col \in DOMAIN ColumnMapping : col \notin popularity.columns},
     tracks |-> {ColumnMapping[col] : col \in DOMAIN ColumnMapping} \ tracks.columns]

\* new_row: NaN in every tracks column, then the popularity value in every
\* mapped column both tables have.
NewRow(tracks, popularity, pop_row) ==
    [track_col \in tracks.columns |->
        IF \E pop_col \in DOMAIN ColumnMapping :
              /\ ColumnMapping[pop_col] = track_col
              /\ pop_col \in popularity.columns
        THEN pop_row[CHOOSE pop_col \in DOMAIN ColumnMapping :
                        /\ ColumnMapping[pop_col] = track_col
                        /\ pop_col \in popularity.columns]
        ELSE NaN]

\* new_rows: one new row per row of popularity_df, in its order
NewRows(tracks, popularity) ==
    [k \in 1..Len(popularity.rows) |-> NewRow(tracks, popularity, popularity.rows[k])]

\* pd.concat with the new rows put first (a mutation of Concat).
ConcatNewFirst(tracks_rows, new_rows) == new_rows \o tracks_rows

\* pd.concat([tracks_df, new_rows_df], ignore_index=True)
Concat(tracks_rows, new_rows) == tracks_rows \o new_rows

\* merged_df.to_csv(output_file, index=False)
FileWithColumns(columns, rows) == [written |-> TRUE, columns |-> columns, rows |-> rows]

\* ---------------------------------------------- tracks_cleaning_1.py

\* A cell of the column 'artists', by what pd.read_csv and ast.literal_eval
\* make of it: a missing cell; a text that does not start with '['; a text
\* that is a well-formed list literal, given by the elements it evaluates to;
\* a text starting with '[' that literal_eval rejects with SyntaxError or
\* ValueError; a number of a numeric column.
NaNCell == [kind |-> "nan"]
TextCell(text) == [kind |-> "text", text |-> text]
ListCell(elements) == [kind |-> "list", elements |-> elements]
MalformedCell(text) == [kind |-> "malformed", text |-> text]
NumberCell(text) == [kind |-> "number", text |-> text]

\* An element of an evaluated list: a str or an int.
StrElement(text) == [type |-> "str", value |-> text]
IntElement(text) == [type |-> "int", value |-> text]

\* What a call gives: a value, or an exception that leaves the function.
Returns(value) == [raised |-> "no", value |-> value]
Raises(exception) == [raised |-> exception]

\* text.strip(chars): the characters of chars removed at both ends
RECURSIVE StripChars(_, _)
StripChars(text, chars) ==
    IF text # <<>> /\ Head(text) \in chars THEN StripChars(Tail(text), chars)
    ELSE IF text # <<>> /\ text[Len(text)] \in chars
    THEN StripChars(SubSeq(text, 1, Len(text) - 1), chars)
    ELSE text

\* text.replace(c, '')
Remove(text, c) == SelectSeq(text, LAMBDA d : d # c)

\* The except branch of extract_main_artist: brackets and quotes removed,
\* the first comma-separated piece stripped, None when it is empty.
FallbackArtist(text) ==
    IF \E i \in 1..Len(text) : text[i] = "["
    THEN LET cleaned == Remove(Remove(StripChars(text, {"[", "]"}), "'"), "dquote")
             first_artist == Strip(SplitOn(cleaned, ",")[1])
         IN  IF first_artist # <<>> THEN first_artist ELSE None
    ELSE text

\* extract_main_artist(artists_str) of tracks_cleaning_1.py.  The first
\* element of a list is stripped as a str; when it is not a str the call
\* of strip raises AttributeError, which the except clause (ValueError,
\* SyntaxError) does not catch.
ExtractMainArtist(cell) ==
    CASE cell.kind = "nan" -> Returns(None)
      [] cell.kind = "text" -> Returns(Strip(cell.text))
      [] cell.kind = "number" -> Returns(cell.text)
      [] cell.kind = "malformed" -> Returns(FallbackArtist(cell.text))
      [] cell.kind = "list" ->
            IF cell.elements = <<>> THEN Returns(None)
            ELSE IF cell.elements[1].type = "str"
            THEN Returns(Strip(cell.elements[1].value))
            ELSE Raises("AttributeError")

\* columns_to_remove
ColumnsToRemove == {"id", "album_id", "artist_ids", "track_number", "disc_number"}

\* df.drop(columns=existing_columns_to_remove)
DropColumns(table, columns) ==
    Table(table.columns \ columns,
          [i \in 1..Len(table.rows) |->
              [col \in table.columns \ columns |-> table.rows[i][col]]])

\* df['artists'] = df['artists'].apply(extract_main_artist), when no call
\* raises
WithMainArtist(table) ==
    Table(table.columns,
          [i \in 1..Len(table.rows) |->
              [col \in table.columns |->
                  IF col = "artists" THEN ExtractMainArtist(table.rows[i][col]).value
                  ELSE table.rows[i][col]]])

\* Some call of extract_main_artist made by apply raises.
ApplyRaises(table) ==
    \E i \in 1..Len(table.rows) : ExtractMainArtist(table.rows[i]["artists"]).raised # "no"

\* ---------------------------------------------- charts_cleaning_3.py

\* The characters of a file: "a" stands for any other character, "lf" and
\* "cr" for '\n' and '\r'.
FileAlphabet == {"a", ".", "0", "lf", "cr"}

RECURSIVE FilesOfLen(_)
FilesOfLen(n) ==
    IF n = 0 THEN {<<>>}
    ELSE {Append(t, c) : t \in FilesOfLen(n - 1), c \in FileAlphabet}

\* open(name, 'r'): universal newlines, '\r\n' and '\r' are read as '\n'
RECURSIVE ReadText(_)
ReadText(chars) ==
    IF chars = <<>> THEN <<>>
    ELSE IF Head(chars) = "cr"
    THEN IF Len(chars) >= 2 /\ chars[2] = "lf"
         THEN <<"lf">> \o ReadText(SubSeq(chars, 3, Len(chars)))
         ELSE <<"lf">> \o ReadText(Tail(chars))
    ELSE <<Head(chars)>> \o ReadText(Tail(chars))

\* file.readlines(): the lines of the text, each with its '\n' when it has one
RECURSIVE ReadLines(_)
ReadLines(chars) ==
    IF chars = <<>> THEN <<>>
    ELSE IF \A i \in 1..Len(chars) : chars[i] # "lf" THEN <<chars>>
    ELSE LET at == CHOOSE i \in 1..Len(chars) :
                      chars[i] = "lf" /\ \A j \in 1..(i - 1) : chars[j] # "lf"
         IN  <<SubSeq(chars, 1, at)>> \o ReadLines(SubSeq(chars, at + 1, Len(chars)))

\* line.rstrip(chars)
RECURSIVE RStripChars(_, _)
RStripChars(line, chars) ==
    IF line # <<>> /\ line[Len(line)] \in chars
    THEN RStripChars(SubSeq(line, 1, Len(line) - 1), chars)
    ELSE line

\* line.endswith('.0')
EndsWithDotZero(line) ==
    Len(line) >= 2 /\ line[Len(line) - 1] = "." /\ line[Len(line)] = "0"

\* The loop body with every trailing '.0' removed, not only the last one (a
\* mutation of ProcessedLine).
RECURSIVE ProcessedLineGreedy(_, _)
ProcessedLineGreedy(i, line) ==
    IF i = 0 THEN line
    ELSE LET stripped == RStripChars(line, {"lf", "cr"})
         IN  IF EndsWithDotZero(stripped)
             THEN ProcessedLineGreedy(i, SubSeq(stripped, 1, Len(stripped) - 2))
             ELSE stripped \o <<"lf">>

\* The loop body for the line at index i (from 0): the first line as it is,
\* any other line without its line ending and without one trailing '.0',
\* then '\n'.
ProcessedLine(i, line) ==
    IF i = 0 THEN line
    ELSE LET stripped == RStripChars(line, {"lf", "cr"})
         IN  (IF EndsWithDotZero(stripped)
              THEN SubSeq(stripped, 1, Len(stripped) - 2)
              ELSE stripped) \o <<"lf">>

\* file.writelines(lines) on a file opened with 'w': the lines one after
\* the other, each '\n' written as os.linesep
RECURSIVE WriteText(_, _)
WriteText(chars, sep) ==
    IF chars = <<>> THEN <<>>
    ELSE (IF Head(chars) = "lf" THEN sep ELSE <<Head(chars)>>) \o WriteText(Tail(chars), sep)

RECURSIVE WriteLines(_, _)
WriteLines(all_lines, sep) ==
    IF all_lines = <<>> THEN <<>>
    ELSE WriteText(Head(all_lines), sep) \o WriteLines(Tail(all_lines), sep)

\* ------------------- clean_artist_name and extract_main_artist (charts)

\* The letter a character stands for under re.IGNORECASE.
FoldCase(c) ==
    CASE c = "X" -> "x"
      [] c = "F" -> "f"
      [] c = "E" -> "e"
      [] OTHER -> c

\* The number of whitespace characters a text starts with.
RECURSIVE LeadingSpaces(_)
LeadingSpaces(chars) ==
    IF chars # <<>> /\ IsSpace(Head(chars)) THEN 1 + LeadingSpaces(Tail(chars)) ELSE 0

\* The text without its first n characters.
Drop(chars, n) == SubSeq(chars, n + 1, Len(chars))

\* The text starts with the word, letter case ignored, and whitespace
\* follows the word.
WordThenSpace(chars, word) ==
    /\ Len(chars) > Len(word)
    /\ \A i \in 1..Len(word) : FoldCase(chars[i]) = word[i]
    /\ IsSpace(chars[Len(word) + 1])

\* re.sub(r'\s+WORD\s+', ' - ', text, flags=re.IGNORECASE) for a pattern
\* whose WORD is one of words: matches are taken from the left and do not
\* overlap, and each takes all the whitespace around its word.
RECURSIVE SubWords(_, _)
SubWords(chars, words) ==
    IF chars = <<>> THEN <<>>
    ELSE LET before == LeadingSpaces(chars)
             rest == Drop(chars, before)
             found == {w \in words : before >= 1 /\ WordThenSpace(rest, w)}
         IN  IF found # {}
             THEN LET word == CHOOSE w \in found : TRUE
                      after == Drop(rest, Len(word))
                  IN  <<" ", "-", " ">> \o SubWords(Drop(after, LeadingSpaces(after)), words)
             ELSE <<Head(chars)>> \o SubWords(Tail(chars), words)

\* re.sub(r'\s*,\s*', ' - ', text)
RECURSIVE SubComma(_)
SubComma(chars) ==
    IF chars = <<>> THEN <<>>
    ELSE LET before == LeadingSpaces(chars)
             rest == Drop(chars, before)
         IN  IF rest # <<>> /\ Head(rest) = ","
             THEN <<" ", "-", " ">> \o SubComma(Drop(Tail(rest), LeadingSpaces(Tail(rest))))
             ELSE <<Head(chars)>> \o SubComma(Tail(chars))

\* re.sub(r'\s+', ' ', text)
RECURSIVE SubSpaces(_)
SubSpaces(chars) ==
    IF chars = <<>> THEN <<>>
    ELSE IF IsSpace(Head(chars))
    THEN <<" ">> \o SubSpaces(Drop(chars, LeadingSpaces(chars)))
    ELSE <<Head(chars)>> \o SubSpaces(Tail(chars))

\* str(artist).replace('"', '').replace("'", '')
RemoveQuotes(chars) == Remove(Remove(chars, "dquote"), "'")

\* The five substitutions of clean_artist_name, in the order of patterns.
SubPatterns(chars) ==
    SubComma(
        SubWords(
            SubWords(
                SubWords(
                    SubWords(chars, {<<"x">>}),
                    {<<"f", "e", "a", "t">>, <<"f", "e", "a", "t", ".">>}),
                {<<"f", "e", "a", "t", "u", "r", "i", "n", "g">>}),
            {<<"&">>}))

\* clean_artist_name(artist) of charts_cleaning_1.py
CleanArtistName(artist) ==
    IF IsNa(artist) THEN artist
    ELSE Strip(SubSpaces(SubPatterns(RemoveQuotes(artist))))

\* extract_main_artist(artist) of charts_cleaning_2.py
ExtractMainArtistCharts(artist) ==
    IF IsNa(artist) THEN <<>>
    ELSE Strip(SplitOn(artist, "-")[1])

\* ------------------------------------------------------------------ state

VARIABLES
    pc,            \* position of the running script
    text,          \* SpecNorm: the argument of normalize_text
    norm_tracks,   \* SpecNorm: result of tracks_cleaning_2.normalize_text
    norm_charts,   \* SpecNorm: result of charts_cleaning_2.normalize_text
    song,          \* SpecKey: first argument of generate_song_id
    artist,        \* SpecKey: second argument of generate_song_id
    id_tracks2,    \* SpecKey: result of tracks_cleaning_2.generate_song_id
    id_charts2,    \* SpecKey: result of charts_cleaning_2.generate_song_id
    id_charts1,    \* SpecKey: result of charts_cleaning_1.generate_song_id
    input_columns, \* SpecDedup: the columns of the input file
    input_rows,    \* SpecDedup: the rows of the input file
    result,        \* SpecDedup: what remove_duplicates_and_generate_ids returns
    output_file,   \* SpecDedup: the rows written to output_file
    id_check,      \* SpecDedup: outcome of the song_id uniqueness check
    df_base,       \* SpecMerge: the rows of base_csv
    df_todo,       \* SpecMerge: the rows of todo_csv
    merged,        \* SpecMerge: the rows written to merged_out
    overlap,       \* SpecMerge: the names written to overlap_out
    tracks_df,     \* SpecArtists: column 'artists' of tracks_final.csv
    charts_df,     \* SpecArtists: column 'artist' of charts_final.csv
    artists_df,    \* SpecArtists: the rows written to artists_id.csv
    tracks_with_id, \* SpecArtists: rows of tracks_final_with_artist_id.csv
    charts_with_id, \* SpecArtists: rows of charts_final_with_artist_id.csv
    tracks_csv,    \* SpecAppend: columns and rows of tracks_file
    popularity_csv, \* SpecAppend: columns and rows of popularity_file
    merged_csv,    \* SpecAppend: columns and rows written to output_file
    merge_warnings, \* SpecAppend: the missing columns merge_csv_files reports
    merge_returned, \* SpecAppend: what merge_csv_files returns
    music_csv,     \* SpecMusic: columns and rows of input_file
    music_out,     \* SpecMusic: columns and rows written to output_file
    music_returned, \* SpecMusic: what process_music_csv returns
    file_in, \* SpecTrim: the characters of charts_processed.csv
    linesep, \* SpecTrim: os.linesep of the platform
    lines, \* SpecTrim: the lines readlines() returns
    processed_lines, \* SpecTrim: the list processed_lines
    file_out, \* SpecTrim: the characters written to final_charts.csv
    raw_artist, \* SpecClean: a cell of the column 'artist' of charts.csv
    cleaned, \* SpecClean: result of clean_artist_name
    main_artist \* SpecClean: result of charts_cleaning_2.extract_main_artist

vars == <<pc, text, norm_tracks, norm_charts,
          song, artist, id_tracks2, id_charts2, id_charts1,
          input_columns, input_rows, result, output_file, id_check,
          df_base, df_todo, merged, overlap,
          tracks_df, charts_df, artists_df, tracks_with_id, charts_with_id,
          tracks_csv, popularity_csv, merged_csv, merge_warnings, merge_returned,
          music_csv, music_out, music_returned,
          file_in, linesep, lines, processed_lines, file_out,
          raw_artist, cleaned, main_artist>>

normVars == <<text, norm_tracks, norm_charts>>
keyVars == <<song, artist, id_tracks2, id_charts2, id_charts1>>
dedupVars == <<input_columns, input_rows, result, output_file, id_check>>
mergeVars == <<df_base, df_todo, merged, overlap>>
artistsVars == <<tracks_df, charts_df, artists_df, tracks_with_id, charts_with_id>>
appendVars == <<tracks_csv, popularity_csv, merged_csv, merge_warnings, merge_returned>>
musicVars == <<music_csv, music_out, music_returned>>
trimVars == <<file_in, linesep, lines, processed_lines, file_out>>
cleanVars == <<raw_artist, cleaned, main_artist>>

\* The variables of the scripts other than the one running.
otherThanNorm ==
    <<keyVars, dedupVars, mergeVars, artistsVars, appendVars, musicVars, trimVars, cleanVars>>
otherThanKey ==
    <<normVars, dedupVars, mergeVars, artistsVars, appendVars, musicVars, trimVars, cleanVars>>
otherThanDedup ==
    <<normVars, keyVars, mergeVars, artistsVars, appendVars, musicVars, trimVars, cleanVars>>
otherThanMerge ==
    <<normVars, keyVars, dedupVars, artistsVars, appendVars, musicVars, trimVars, cleanVars>>
otherThanArtists ==
    <<normVars, keyVars, dedupVars, mergeVars, appendVars, musicVars, trimVars, cleanVars>>
otherThanAppend ==
    <<normVars, keyVars, dedupVars, mergeVars, artistsVars, musicVars, trimVars, cleanVars>>
otherThanMusic ==
    <<normVars, keyVars, dedupVars, mergeVars, artistsVars, appendVars, trimVars, cleanVars>>
otherThanTrim ==
    <<normVars, keyVars, dedupVars, mergeVars, artistsVars, appendVars, musicVars, cleanVars>>
otherThanClean ==
    <<normVars, keyVars, dedupVars, mergeVars, artistsVars, appendVars, musicVars, trimVars>>

\* The variables of a script that is not the one running.
NormIdle == text = NaN /\ norm_tracks = None /\ norm_charts = None
KeyIdle ==
    /\ song = NaN /\ artist = NaN
    /\ id_tracks2 = None /\ id_charts2 = None /\ id_charts1 = None
DedupIdle ==
    /\ input_columns = {} /\ input_rows = <<>>
    /\ result = ReturnedNone /\ output_file = NoFile
    /\ id_check = "not_run"
MergeIdle ==
    /\ df_base = <<>> /\ df_todo = <<>>
    /\ merged = NoFile /\ overlap = NoFile
ArtistsIdle ==
    /\ tracks_df = <<>> /\ charts_df = <<>>
    /\ artists_df = NoFile /\ tracks_with_id = NoFile /\ charts_with_id = NoFile
AppendIdle ==
    /\ tracks_csv = NoTable /\ popularity_csv = NoTable
    /\ merged_csv = NoFile
    /\ merge_warnings = NoWarnings
    /\ merge_returned = "not_called"
MusicIdle ==
    /\ music_csv = NoTable /\ music_out = NoFile
    /\ music_returned = "not_called"
TrimIdle ==
    /\ file_in = <<>> /\ linesep = <<"lf">>
    /\ lines = <<>> /\ processed_lines = <<>> /\ file_out = <<>>
CleanIdle ==
    /\ raw_artist = NaN /\ cleaned = None /\ main_artist = None

\* Every script other than the running one is idle.
OthersIdle(running) ==
    /\ running # "norm" => NormIdle
    /\ running # "key" => KeyIdle
    /\ running # "dedup" => DedupIdle
    /\ running # "merge" => MergeIdle
    /\ running # "artists" => ArtistsIdle
    /\ running # "append" => AppendIdle
    /\ running # "music" => MusicIdle
    /\ running # "trim" => TrimIdle
    /\ running # "clean" => CleanIdle

\* --------------------------------------------- SpecNorm: normalize_text

InitNorm ==
    /\ pc = "norm_start"
    /\ text \in TextsUpTo(MaxLen) \cup {NaN}
    /\ norm_tracks = None
    /\ norm_charts = None
    /\ OthersIdle("norm")

\* One call of tracks_cleaning_2.normalize_text(text).
CallNormalizeTracks ==
    /\ pc = "norm_start"
    /\ norm_tracks' = NormalizeTextTracks(text)
    /\ pc' = "norm_tracks_done"
    /\ UNCHANGED <<text, norm_charts, otherThanNorm>>

\* One call of charts_cleaning_2.normalize_text(text).
CallNormalizeCharts ==
    /\ pc = "norm_tracks_done"
    /\ norm_charts' = NormalizeTextCharts(text)
    /\ pc' = "norm_done"
    /\ UNCHANGED <<text, norm_tracks, otherThanNorm>>

NextNorm == CallNormalizeTracks \/ CallNormalizeCharts

SpecNorm == InitNorm /\ [][NextNorm]_vars

\* -------------------------------------------- SpecKey: generate_song_id

InitKey ==
    /\ pc = "key_start"
    /\ song \in TextsUpTo(MaxFieldLen) \cup {NaN}
    /\ artist \in TextsUpTo(MaxFieldLen) \cup {NaN}
    /\ id_tracks2 = None /\ id_charts2 = None /\ id_charts1 = None
    /\ OthersIdle("key")

\* One call of tracks_cleaning_2.generate_song_id(song, artist).
CallGenerateTracks ==
    /\ pc = "key_start"
    /\ id_tracks2' = GenerateSongIdTracks(song, artist)
    /\ pc' = "key_tracks_done"
    /\ UNCHANGED <<song, artist, id_charts2, id_charts1, otherThanKey>>

\* One call of charts_cleaning_2.generate_song_id(song, artist).
CallGenerateCharts2 ==
    /\ pc = "key_tracks_done"
    /\ id_charts2' = GenerateSongIdCharts2(song, artist)
    /\ pc' = "key_charts2_done"
    /\ UNCHANGED <<song, artist, id_tracks2, id_charts1, otherThanKey>>

\* One call of charts_cleaning_1.generate_song_id(song, artist).
CallGenerateCharts1 ==
    /\ pc = "key_charts2_done"
    /\ id_charts1' = GenerateSongIdCharts1(song, artist)
    /\ pc' = "key_done"
    /\ UNCHANGED <<song, artist, id_tracks2, id_charts2, otherThanKey>>

NextKey == CallGenerateTracks \/ CallGenerateCharts2 \/ CallGenerateCharts1

SpecKey == InitKey /\ [][NextKey]_vars

\* ------------------------- SpecDedup: remove_duplicates_and_generate_ids

\* Values of the columns 'name' and 'artists' in the input file (an empty
\* cell is read as NaN).
NamePool == {<<"E">>, <<"e">>, <<"1">>, NaN}
ArtistsPool == {<<"e">>, <<"E", " ">>, NaN}

InitDedup ==
    /\ pc = "dedup_start"
    /\ \/ /\ input_columns = {"name", "artists"}
          /\ input_rows \in SeqsUpTo([name : NamePool, artists : ArtistsPool], MaxRows)
       \/ /\ input_columns = {"name"}
          /\ input_rows \in SeqsUpTo([name : NamePool, artists : {NaN}], 1)
       \/ /\ input_columns = {"artists"}
          /\ input_rows \in SeqsUpTo([name : {NaN}, artists : ArtistsPool], 1)
    /\ result = ReturnedNone
    /\ output_file = NoFile
    /\ id_check = "not_run"
    /\ OthersIdle("dedup")

\* remove_duplicates_and_generate_ids(input_file) with the default column
\* names.  A missing column returns None before anything is computed.  On an
\* empty table the summary divides by original_count = 0; the exception is
\* caught, None is returned and no file is written.  After the file is
\* written the song ids of the kept rows are counted: "warning" stands for
\* the message that some ids are not unique, "unique" for the other one.
RemoveDuplicatesAndGenerateIds ==
    /\ pc = "dedup_start"
    /\ LET df == ReadCsv(input_rows)
           df_deduplicated == Deduplicated(WithSongId(df))
       IN  IF "name" \notin input_columns \/ "artists" \notin input_columns
           THEN result' = ReturnedNone /\ output_file' = NoFile
                /\ id_check' = "not_run"
           ELSE IF Len(df) = 0
           THEN result' = ReturnedNone /\ output_file' = NoFile
                /\ id_check' = "not_run"
           ELSE /\ result' = ReturnedFrame(df_deduplicated)
                /\ output_file' = File(ToCsv(df_deduplicated))
                /\ id_check' = IF NUnique(df_deduplicated) # Len(df_deduplicated)
                               THEN "warning" ELSE "unique"
    /\ pc' = "dedup_done"
    /\ UNCHANGED <<input_columns, input_rows, otherThanDedup>>

NextDedup == RemoveDuplicatesAndGenerateIds

SpecDedup == InitDedup /\ [][NextDedup]_vars

\* ------------------------------------------------ SpecMerge: merge_artists

\* Rows of artist.csv and of artist_todo.csv.
BaseRowPool ==
    [artist_id : {<<"id1">>, <<"id2">>},
     artist_name : {<<"E">>, <<"e", " ">>, <<"1">>}]
TodoRowPool ==
    [artist_id : {<<"t1">>},
     artist_name : {<<"e">>, <<" ", "E">>, <<"1">>},
     artist_genre : {<<"pop">>, <<"rock">>},
     artist_img : {<<"img">>},
     country : {<<"IT">>}]

InitMerge ==
    /\ pc = "merge_start"
    /\ df_base \in SeqsUpTo(BaseRowPool, MaxBaseRows)
    /\ df_todo \in SeqsUpTo(TodoRowPool, MaxTodoRows)
    /\ merged = NoFile
    /\ overlap = NoFile
    /\ OthersIdle("merge")

\* merge_artists(base_csv, todo_csv)
MergeArtists ==
    /\ pc = "merge_start"
    /\ merged' = File(LeftJoin(df_base, df_todo))
    /\ overlap' = File(Overlap(df_base, df_todo))
    /\ pc' = "merge_done"
    /\ UNCHANGED <<df_base, df_todo, otherThanMerge>>

NextMerge == MergeArtists

SpecMerge == InitMerge /\ [][NextMerge]_vars

\* ------------------------------------ SpecArtists: process_csv_files

\* Cells of the column 'artists' of tracks_final.csv and of the column
\* 'artist' of charts_final.csv (an empty cell is read as NaN).
TracksArtistsPool ==
    {NaN, <<"e">>, <<"E", " ">>, <<"e", ",", "E">>, <<"e", ",">>, <<"1", ",", " ", "e">>}
ChartsArtistPool == {NaN, <<"e">>, <<"1">>, <<" ">>}

InitArtists ==
    /\ pc = "artists_start"
    /\ tracks_df \in SeqsUpTo(TracksArtistsPool, MaxTracksRows)
    /\ charts_df \in SeqsUpTo(ChartsArtistPool, MaxChartsRows)
    /\ artists_df = NoFile
    /\ tracks_with_id = NoFile
    /\ charts_with_id = NoFile
    /\ OthersIdle("artists")

\* process_csv_files(): collects the artists of both tables, gives each an
\* id, adds the column artist_id to both tables and writes the three files.
ProcessCsvFiles ==
    /\ pc = "artists_start"
    /\ LET all_artists == AllArtists(tracks_df, charts_df)
       IN  /\ artists_df' = File(ArtistsFrame(all_artists))
           /\ tracks_with_id' = File(WithArtistId(tracks_df, all_artists))
           /\ charts_with_id' = File(WithArtistId(charts_df, all_artists))
    /\ pc' = "artists_done"
    /\ UNCHANGED <<tracks_df, charts_df, otherThanArtists>>

NextArtists == ProcessCsvFiles

SpecArtists == InitArtists /\ [][NextArtists]_vars

\* --------------------------------------- SpecAppend: merge_csv_files

\* Column sets of tracks_file: the expected ones, one mapped column missing,
\* a file with few columns, a file with a column named as an unmapped
\* popularity column, a file with no mapped column.
TracksColumnsPool ==
    {ExpectedTracksCols, ExpectedTracksCols \ {"name"}, {"id", "name", "album"},
     {"id", "popularity"}, {"album"}}

\* Column sets of popularity_file.
PopularityColumnsPool ==
    {ExpectedPopCols, ExpectedPopCols \ {"track_name"}, {"track_id", "year", "popularity"},
     {"popularity"}}

InitAppend ==
    /\ pc = "append_start"
    /\ \E columns \in TracksColumnsPool :
        tracks_csv \in TablesOf("tracks", columns, MaxAppendRows)
    /\ \E columns \in PopularityColumnsPool :
        popularity_csv \in TablesOf("popularity", columns, MaxAppendRows)
    /\ merged_csv = NoFile
    /\ merge_warnings = NoWarnings
    /\ merge_returned = "not_called"
    /\ OthersIdle("append")

\* merge_csv_files(tracks_file, popularity_file): reports the mapped columns
\* that are missing and goes on, builds one new row per popularity row,
\* appends the new rows to the tracks rows, writes the file and returns True.
MergeCsvFiles ==
    /\ pc = "append_start"
    /\ merge_warnings' = MissingColumns(tracks_csv, popularity_csv)
    /\ merged_csv' = FileWithColumns(tracks_csv.columns,
                        Concat(tracks_csv.rows, NewRows(tracks_csv, popularity_csv)))
    /\ merge_returned' = "True"
    /\ pc' = "append_done"
    /\ UNCHANGED <<tracks_csv, popularity_csv, otherThanAppend>>

NextAppend == MergeCsvFiles

SpecAppend == InitAppend /\ [][NextAppend]_vars

\* ------------------------------------- SpecMusic: process_music_csv

\* Cells of the column 'artists' of the input file: missing, ' e',
\* "['e ', 'E']", "[]", "[1, 1]", "['e", "[" and the number 1.
ArtistsCellPool ==
    {NaNCell,
     TextCell(<<" ", "e">>),
     ListCell(<<StrElement(<<"e", " ">>), StrElement(<<"E">>)>>),
     ListCell(<<>>),
     ListCell(<<IntElement(<<"1">>), IntElement(<<"1">>)>>),
     MalformedCell(<<"[", "'", "e">>),
     MalformedCell(<<"[">>),
     NumberCell(<<"1">>)}

\* Column sets of the input file.
MusicColumnsPool == {{"id", "name", "artists"}, {"name", "artists"}, {"id", "name"}}

\* The rows a file with the given columns can hold.
MusicRows(columns) ==
    IF "artists" \in columns
    THEN {[col \in columns |-> IF col = "artists" THEN cell ELSE <<"music", col>>] :
            cell \in ArtistsCellPool}
    ELSE {[col \in columns |-> <<"music", col>>]}

InitMusic ==
    /\ pc = "music_start"
    /\ \E columns \in MusicColumnsPool :
        \E rows \in SeqsUpTo(MusicRows(columns), MaxMusicRows) :
            music_csv = Table(columns, rows)
    /\ music_out = NoFile
    /\ music_returned = "not_called"
    /\ OthersIdle("music")

\* process_music_csv(input_file): drops the columns to remove, replaces the
\* column 'artists' (when there is one) by the main artist of each row,
\* writes the file and returns the frame.  An exception raised in apply
\* leaves the try block before to_csv: None is returned and no file is
\* written.
ProcessMusicCsv ==
    /\ pc = "music_start"
    /\ LET df == DropColumns(music_csv, ColumnsToRemove)
       IN  IF "artists" \in df.columns
           THEN IF ApplyRaises(df)
                THEN music_out' = NoFile /\ music_returned' = "None"
                ELSE /\ music_out' = FileWithColumns(df.columns, WithMainArtist(df).rows)
                     /\ music_returned' = "frame"
           ELSE /\ music_out' = FileWithColumns(df.columns, df.rows)
                /\ music_returned' = "frame"
    /\ pc' = "music_done"
    /\ UNCHANGED <<music_csv, otherThanMusic>>

NextMusic == ProcessMusicCsv

SpecMusic == InitMusic /\ [][NextMusic]_vars

\* ------------------------------------- SpecTrim: charts_cleaning_3.py

\* The script runs on a platform whose os.linesep is '\n' or '\r\n'.
InitTrim ==
    /\ pc = "trim_start"
    /\ file_in \in UNION {FilesOfLen(n) : n \in 0..MaxFileLen}
    /\ linesep \in {<<"lf">>, <<"cr", "lf">>}
    /\ lines = <<>>
    /\ processed_lines = <<>>
    /\ file_out = <<>>
    /\ OthersIdle("trim")

\* The module body: reads the lines, processes each and writes them.
TrimTrailingZero ==
    /\ pc = "trim_start"
    /\ LET read == ReadLines(ReadText(file_in))
           processed == [k \in 1..Len(read) |-> ProcessedLine(k - 1, read[k])]
       IN  /\ lines' = read
           /\ processed_lines' = processed
           /\ file_out' = WriteLines(processed, linesep)
    /\ pc' = "trim_done"
    /\ UNCHANGED <<file_in, linesep, otherThanTrim>>

NextTrim == TrimTrailingZero

SpecTrim == InitTrim /\ [][NextTrim]_vars

\* ------------- SpecClean: clean_artist_name, then extract_main_artist

\* The pieces artist cells are made of, and the cells of up to n pieces.
ArtistPieces == {<<"e">>, <<"x">>, <<" ">>, <<",">>, <<"&">>, <<"'">>, <<"-">>}

RECURSIVE ArtistsOfPieces(_)
ArtistsOfPieces(n) ==
    IF n = 0 THEN {<<>>}
    ELSE {t \o piece : t \in ArtistsOfPieces(n - 1), piece \in ArtistPieces}

\* Cells with the longer separator words, an upper-case separator, a tab
\* and a double quote.
LongArtists ==
    {<<"e", " ", "f", "e", "a", "t", ".", " ", "e">>,
     <<"e", " ", "F", "e", "a", "t", " ", "e">>,
     <<"e", " ", "f", "e", "a", "t", "u", "r", "i", "n", "g", " ", "e">>,
     <<"e", " ", "f", "e", "a", "t", ".", ",", "e">>,
     <<"e", "-", "e", " ", "f", "e", "a", "t", ".", " ", "e">>,
     <<"E", "tab", "X", " ", " ", "e">>,
     <<"dquote", "e", "dquote", " ", "&", " ", "e">>}

InitClean ==
    /\ pc = "clean_start"
    /\ raw_artist \in UNION {ArtistsOfPieces(n) : n \in 0..MaxPieces}
                       \cup LongArtists \cup {NaN}
    /\ cleaned = None
    /\ main_artist = None
    /\ OthersIdle("clean")

\* df['artist'].apply(clean_artist_name) of charts_cleaning_1.py on one cell
CallCleanArtistName ==
    /\ pc = "clean_start"
    /\ cleaned' = CleanArtistName(raw_artist)
    /\ pc' = "clean_done"
    /\ UNCHANGED <<raw_artist, main_artist, otherThanClean>>

\* df['artist'].apply(extract_main_artist) of charts_cleaning_2.py on the
\* cleaned cell
CallExtractMainArtist ==
    /\ pc = "clean_done"
    /\ main_artist' = ExtractMainArtistCharts(cleaned)
    /\ pc' = "main_done"
    /\ UNCHANGED <<raw_artist, cleaned, otherThanClean>>

NextClean == CallCleanArtistName \/ CallExtractMainArtist

SpecClean == InitClean /\ [][NextClean]_vars

\* ------------------------------------------------- inputs of the claims

\* Song and artist texts a second call of generate_song_id is made with.
ProbeFields ==
    {NaN, <<>>, <<"e">>, <<"E", " ">>, <<"eacute">>,
     <<"e", "_">>, <<"_", "e">>, <<"e", "|">>}

ProbePairs == ProbeFields \X ProbeFields

\* The text a digest was computed from.
Hashed(digest) == digest[3]

UpperChar(c) ==
    CASE c = "e" -> "E"
      [] c = "eacute" -> "Eacute"
      [] OTHER -> c

\* t with its letters upper-cased, every whitespace code point doubled and
\* whitespace added at both ends.
RECURSIVE UpperSpaced(_)
UpperSpaced(t) ==
    IF t = <<>> THEN <<>>
    ELSE (IF IsSpace(Head(t)) THEN <<Head(t), " ">> ELSE <<UpperChar(Head(t))>>)
         \o UpperSpaced(Tail(t))

PadUpper(t) == IF IsNa(t) THEN t ELSE <<" ">> \o UpperSpaced(t) \o <<"tab">>

AccentChar(c) ==
    CASE c = "e" -> "eacute"
      [] c = "E" -> "Eacute"
      [] OTHER -> c

\* t with its base letters replaced by their accented forms.
Accent(t) == IF IsNa(t) THEN t ELSE [i \in 1..Len(t) |-> AccentChar(t[i])]

\* The characters of [a-z0-9 ].
IsAsciiAlnumOrSpace(c) == c \in {"e", "1", " "}

\* s holds only characters of [a-z0-9 ], no space at either end and no two
\* spaces in a row.
CleanAscii(s) ==
    /\ \A i \in 1..Len(s) : IsAsciiAlnumOrSpace(s[i])
    /\ s # <<>> => s[1] # " " /\ s[Len(s)] # " "
    /\ \A i \in 1..(Len(s) - 1) : ~(s[i] = " " /\ s[i + 1] = " ")

\* ---------------------------------------------------------------- claims

\* C1: the song id depends only on the normalized fields: whenever a second
\* pair of fields has the same normalized song and the same normalized artist
\* as the pair of the call, generate_song_id gives it the id the call
\* returned, in tracks_cleaning_2 and in charts_cleaning_2.
C1_KeyDependsOnNormalizedFields ==
    pc = "key_done" =>
        \A p \in ProbePairs :
            /\ (/\ NormalizeTextTracks(p[1]) = NormalizeTextTracks(song)
                /\ NormalizeTextTracks(p[2]) = NormalizeTextTracks(artist))
               => GenerateSongIdTracks(p[1], p[2]) = id_tracks2
            /\ (/\ NormalizeTextCharts(p[1]) = NormalizeTextCharts(song)
                /\ NormalizeTextCharts(p[2]) = NormalizeTextCharts(artist))
               => GenerateSongIdCharts2(p[1], p[2]) = id_charts2

\* C1 witness: the call was made with fields that differ from a second pair
\* only by case and whitespace.
C1_Witness ==
    /\ pc = "key_done"
    /\ song = <<"E">> /\ artist = <<"e">>
    /\ id_tracks2 = GenerateSongIdTracks(<<"e">>, <<"E", " ">>)
    /\ id_charts2 = GenerateSongIdCharts2(<<"e">>, <<"E", " ">>)

\* The index labels of the input rows that are the first with their
\* normalized (song, artist) key.
FirstOccurrences ==
    {i \in 0..(Len(input_rows) - 1) :
        \A j \in 0..(i - 1) :
            NormalizedKey(input_rows[j + 1]) # NormalizedKey(input_rows[i + 1])}

\* The rows of the output file, none when no file was written.
OutputRows == IF output_file.written THEN output_file.rows ELSE <<>>

\* C2: for every input table with both columns, the table returned by
\* remove_duplicates_and_generate_ids is made of exactly the first row of
\* every normalized (song, artist) key, unchanged and in the input's order,
\* and that table is what the output file holds.
C2_DedupKeepsFirstOccurrences ==
    (pc = "dedup_done" /\ input_columns = {"name", "artists"}) =>
        /\ result.returned = "frame"
        /\ {result.rows[k].index : k \in 1..Len(result.rows)} = FirstOccurrences
        /\ \A k \in 1..(Len(result.rows) - 1) :
            result.rows[k].index < result.rows[k + 1].index
        /\ \A k \in 1..Len(result.rows) :
            /\ result.rows[k].name = input_rows[result.rows[k].index + 1].name
            /\ result.rows[k].artists = input_rows[result.rows[k].index + 1].artists
        /\ output_file = File(ToCsv(result.rows))

\* The same statement for the tables of at least one row (not a claim: it
\* records what the code does outside the failing input of C2).
DedupKeepsFirstOccurrencesOfNonEmpty ==
    (pc = "dedup_done" /\ input_columns = {"name", "artists"} /\ input_rows # <<>>) =>
        /\ result.returned = "frame"
        /\ {result.rows[k].index : k \in 1..Len(result.rows)} = FirstOccurrences
        /\ \A k \in 1..(Len(result.rows) - 1) :
            result.rows[k].index < result.rows[k + 1].index
        /\ \A k \in 1..Len(result.rows) :
            /\ result.rows[k].name = input_rows[result.rows[k].index + 1].name
            /\ result.rows[k].artists = input_rows[result.rows[k].index + 1].artists
        /\ output_file = File(ToCsv(result.rows))

\* C3: after remove_duplicates_and_generate_ids no two output rows have the
\* same (normalize(name), normalize(artists)) pair, and every pair of the
\* input is the pair of exactly one output row.
C3_OneRowPerNormalizedKey ==
    (pc = "dedup_done" /\ input_columns = {"name", "artists"}) =>
        /\ \A k, l \in 1..Len(OutputRows) :
            NormalizedKey(OutputRows[k]) = NormalizedKey(OutputRows[l]) => k = l
        /\ \A i \in 1..Len(input_rows) :
            Cardinality({k \in 1..Len(OutputRows) :
                NormalizedKey(OutputRows[k]) = NormalizedKey(input_rows[i])}) = 1

\* C3 witness: two rows that differ only by case and whitespace were
\* collapsed to the first of them.
C3_Witness ==
    /\ pc = "dedup_done"
    /\ input_rows = <<[name |-> <<"E">>, artists |-> <<"E", " ">>],
                      [name |-> <<"E">>, artists |-> <<"e">>]>>
    /\ output_file.written
    /\ Len(output_file.rows) = 1
    /\ output_file.rows[1].artists = <<"E", " ">>

\* C4: every base row appears exactly once in the output of merge_artists:
\* the output has one row per base row, in order, whatever the number of
\* supplementary rows with the base row's key.
C4_LeftJoinKeepsRowCount ==
    pc = "merge_done" =>
        /\ Len(merged.rows) = Len(df_base)
        /\ \A i \in 1..Len(df_base) :
            /\ merged.rows[i].artist_id = df_base[i].artist_id
            /\ merged.rows[i].artist_name = df_base[i].artist_name

\* C5: normalizing a normalized text changes nothing, for
\* tracks_cleaning_2.normalize_text and charts_cleaning_2.normalize_text, the
\* missing value included.
C5_NormalizeIdempotent ==
    /\ pc \in {"norm_tracks_done", "norm_done"}
       => NormalizeTextTracks(norm_tracks) = norm_tracks
    /\ pc = "norm_done" => NormalizeTextCharts(norm_charts) = norm_charts

\* C5 witness: a text that both variants change and neither empties.
C5_Witness ==
    /\ pc = "norm_done"
    /\ text = <<"Eacute", " ", "E">>
    /\ norm_tracks = <<"e", " ", "e">>
    /\ norm_charts = <<"e">>

\* C6: the result of normalize_text holds only characters of [a-z0-9 ], has
\* no space at either end and no two spaces in a row, in both variants.
C6_NormalizedIsCleanAscii ==
    pc = "norm_done" => CleanAscii(norm_tracks) /\ CleanAscii(norm_charts)

\* C7: generate_song_id gives a text, the text upper-cased with whitespace
\* added, and the text with accented letters the same id, in both variants.
C7_KeyIgnoresCaseSpaceAccents ==
    pc = "key_done" =>
        /\ id_tracks2 = GenerateSongIdTracks(PadUpper(song), PadUpper(artist))
        /\ id_tracks2 = GenerateSongIdTracks(Accent(song), Accent(artist))
        /\ id_charts2 = GenerateSongIdCharts2(PadUpper(song), PadUpper(artist))
        /\ id_charts2 = GenerateSongIdCharts2(Accent(song), Accent(artist))

\* C8: the charts pipeline and the tracks pipeline give every (song, artist)
\* pair the same song id.
C8_ChartsAndTracksAgree ==
    pc = "key_done" => id_charts2 = id_tracks2

\* C9: the delimiter never occurs in a normalized field and the joined string
\* determines both normalized fields, for "|" in tracks_cleaning_2 and
\* charts_cleaning_2 and for "_" in charts_cleaning_1.
C9_DelimiterUnambiguous ==
    pc = "key_done" =>
        /\ \A i \in 1..Len(NormalizeTextTracks(song)) : NormalizeTextTracks(song)[i] # "|"
        /\ \A i \in 1..Len(NormalizeTextCharts(song)) : NormalizeTextCharts(song)[i] # "|"
        /\ \A p \in ProbePairs :
            /\ CombinedTracks(p[1], p[2]) = Hashed(id_tracks2)
               => /\ NormalizeTextTracks(p[1]) = NormalizeTextTracks(song)
                  /\ NormalizeTextTracks(p[2]) = NormalizeTextTracks(artist)
            /\ CombinedCharts2(p[1], p[2]) = Hashed(id_charts2)
               => /\ NormalizeTextCharts(p[1]) = NormalizeTextCharts(song)
                  /\ NormalizeTextCharts(p[2]) = NormalizeTextCharts(artist)
            /\ (/\ id_charts1 # None /\ ~IsNa(p[1]) /\ ~IsNa(p[2])
                /\ CombinedCharts1(p[1], p[2]) = Hashed(id_charts1))
               => /\ NormalizeCharts1(p[1]) = NormalizeCharts1(song)
                  /\ NormalizeCharts1(p[2]) = NormalizeCharts1(artist)

\* C10: a missing field counts as the empty string: normalize_text of the
\* missing value is "", and with a missing song or artist every
\* generate_song_id returns the id of the fields with "" in its place.
C10_MissingFieldIsEmptyString ==
    pc = "key_done" =>
        LET s == IF IsNa(song) THEN <<>> ELSE song
            a == IF IsNa(artist) THEN <<>> ELSE artist
        IN  /\ NormalizeTextTracks(NaN) = <<>>
            /\ NormalizeTextCharts(NaN) = <<>>
            /\ (IsNa(song) \/ IsNa(artist)) =>
                /\ id_tracks2 = GenerateSongIdTracks(s, a)
                /\ id_charts2 = GenerateSongIdCharts2(s, a)
                /\ id_charts1 # None
                /\ id_charts1 = GenerateSongIdCharts1(s, a)

\* Some row of the supplementary table has the key of the base row b.
HasMatch(b) ==
    \E j \in 1..Len(df_todo) :
        Lower(Strip(df_todo[j].artist_name)) = Lower(Strip(b.artist_name))

\* The first row of the supplementary table with the key of the base row b.
FirstMatch(b) ==
    df_todo[CHOOSE j \in 1..Len(df_todo) :
        /\ Lower(Strip(df_todo[j].artist_name)) = Lower(Strip(b.artist_name))
        /\ \A l \in 1..(j - 1) :
            Lower(Strip(df_todo[l].artist_name)) # Lower(Strip(b.artist_name))]

\* C13: merge_artists writes its output; every output row carries the
\* artist_id and artist_name of a base row, and every base row whose trimmed
\* lower-cased name matches no supplementary row is in the output with
\* artist_genre, artist_img and country blank.
C13_BaseIdentityKeptAndUnmatchedBlank ==
    pc = "merge_done" =>
        /\ merged.written
        /\ \A k \in 1..Len(merged.rows) :
            \E i \in 1..Len(df_base) :
                /\ merged.rows[k].artist_id = df_base[i].artist_id
                /\ merged.rows[k].artist_name = df_base[i].artist_name
        /\ \A i \in 1..Len(df_base) :
            ~HasMatch(df_base[i]) =>
                /\ \E k \in 1..Len(merged.rows) :
                    /\ merged.rows[k].artist_id = df_base[i].artist_id
                    /\ merged.rows[k].artist_name = df_base[i].artist_name
                /\ \A k \in 1..Len(merged.rows) :
                    (/\ merged.rows[k].artist_id = df_base[i].artist_id
                     /\ merged.rows[k].artist_name = df_base[i].artist_name)
                    => /\ merged.rows[k].artist_genre = NaN
                       /\ merged.rows[k].artist_img = NaN
                       /\ merged.rows[k].country = NaN

\* C13 witness: one base row has a match and one has none.
C13_Witness ==
    /\ pc = "merge_done"
    /\ Len(df_base) = 2 /\ Len(df_todo) = 1
    /\ HasMatch(df_base[1]) /\ ~HasMatch(df_base[2])
    /\ Len(merged.rows) = 2
    /\ merged.rows[1].artist_genre # NaN
    /\ merged.rows[2].artist_genre = NaN

\* C14: when several supplementary rows have the key of a base row, every
\* output row of that base row carries the columns of the first of them in
\* the supplementary table's order.
C14_FirstMatchWins ==
    pc = "merge_done" =>
        \A i \in 1..Len(df_base) :
            HasMatch(df_base[i]) =>
                \A k \in 1..Len(merged.rows) :
                    (/\ merged.rows[k].artist_id = df_base[i].artist_id
                     /\ merged.rows[k].artist_name = df_base[i].artist_name)
                    => /\ merged.rows[k].artist_genre = FirstMatch(df_base[i]).artist_genre
                       /\ merged.rows[k].artist_img = FirstMatch(df_base[i]).artist_img
                       /\ merged.rows[k].country = FirstMatch(df_base[i]).country

\* C15: the overlap output lists a base artist_name exactly when its trimmed
\* lower-cased form is that of some supplementary row, lists it once, and
\* keeps the base table's order.
C15_OverlapIsMatchedBaseNames ==
    pc = "merge_done" =>
        /\ overlap.written
        /\ \A i \in 1..Len(df_base) :
            HasMatch(df_base[i]) <=>
                \E k \in 1..Len(overlap.rows) : overlap.rows[k] = df_base[i].artist_name
        /\ \A k \in 1..Len(overlap.rows) :
            \E i \in 1..Len(df_base) : overlap.rows[k] = df_base[i].artist_name
        /\ \A k, l \in 1..Len(overlap.rows) : overlap.rows[k] = overlap.rows[l] => k = l
        /\ \A k, l \in 1..Len(overlap.rows) :
            k < l =>
                \E i \in 1..Len(df_base) :
                    /\ df_base[i].artist_name = overlap.rows[k]
                    /\ \A j \in 1..i : df_base[j].artist_name # overlap.rows[l]

\* C15 witness: two base rows with the same matched name are listed once.
C15_Witness ==
    /\ pc = "merge_done"
    /\ Len(df_base) = 2
    /\ df_base[1].artist_name = df_base[2].artist_name
    /\ HasMatch(df_base[1])
    /\ Len(overlap.rows) = 1

\* C16 as claimed: every song id is the full digest of 32 hex digits, in
\* every script that produces one.
C16_EveryIdIsFullLength ==
    pc = "key_done" =>
        /\ id_tracks2[2] = 32
        /\ id_charts2[2] = 32
        /\ id_charts1 # None => id_charts1[2] = 32

\* C16 amended: a song id has a fixed length in each script: the full 32 hex
\* digits in tracks_cleaning_2 and charts_cleaning_2, the first IdPrefixLen
\* (10) hex digits of the digest in charts_cleaning_1.
C16_IdLengthFixedPerScript ==
    pc = "key_done" =>
        /\ id_tracks2[2] = 32
        /\ id_charts2[2] = 32
        /\ id_charts1 # None => id_charts1[2] = IdPrefixLen

\* C16 witness: charts_cleaning_1 returned an id.
C16_Witness ==
    /\ pc = "key_done"
    /\ song = <<"e">> /\ artist = <<"E">>
    /\ id_charts1 = <<"md5", 10, <<"e", "_", "e">>>>

\* The input rows with their song ids, as the script holds them before the
\* duplicates are dropped.
RowsWithIds == WithSongId(ReadCsv(input_rows))

\* C20: when the script returns a frame, no two output rows have the same
\* song_id and the uniqueness warning is not printed; two input rows have the
\* same deduplication key exactly when they have the same song_id.
C20_SongIdUniqueAfterDedup ==
    (pc = "dedup_done" /\ result.returned = "frame") =>
        /\ id_check = "unique"
        /\ \A k, l \in 1..Len(result.rows) :
            result.rows[k].song_id = result.rows[l].song_id => k = l
        /\ \A i, j \in 1..Len(RowsWithIds) :
            (NormalizedKey(RowsWithIds[i]) = NormalizedKey(RowsWithIds[j]))
            <=> (RowsWithIds[i].song_id = RowsWithIds[j].song_id)

\* C20 witness: a name without artists and artists without a name, which only
\* the delimiter keeps apart, are both kept, and a repeated row is dropped.
C20_Witness ==
    /\ pc = "dedup_done"
    /\ Len(input_rows) = 3
    /\ input_rows[1] = [name |-> <<"e">>, artists |-> NaN]
    /\ input_rows[2] = [name |-> NaN, artists |-> <<"e">>]
    /\ input_rows[3] = [name |-> <<"E">>, artists |-> NaN]
    /\ result.returned = "frame"
    /\ Len(result.rows) = 2
    /\ id_check = "unique"

\* C11: the artists table written by process_csv_files never holds the empty
\* string as an artist name.
C11_NoEmptyArtist ==
    pc = "artists_done" =>
        \A k \in 1..Len(artists_df.rows) : artists_df.rows[k].artist_name # <<>>

\* The rows of the output that follow the tracks rows.
AppendedRows ==
    SubSeq(merged_csv.rows, Len(tracks_csv.rows) + 1, Len(merged_csv.rows))

MappedPairs ==
    {<<"track_id", "id">>, <<"track_name", "name">>, <<"artist_name", "artists">>}
    \cup {<<col, col>> : col \in {"acousticness", "danceability", "duration_ms",
              "energy", "instrumentalness", "key", "liveness", "loudness", "mode",
              "speechiness", "tempo", "time_signature", "valence", "year"}}

\* C19: in every created row a tracks column that is the target of a mapping
\* whose source column is in the popularity table holds that popularity
\* row's value; every other tracks column is null; no cell holds the value
\* of an unmapped popularity column.
C19_NewRowsHoldMappedValuesOnly ==
    pc = "append_done" =>
        \A k \in 1..Len(popularity_csv.rows) :
            \A track_col \in tracks_csv.columns :
                LET sources == {pair \in MappedPairs :
                                   pair[2] = track_col /\ pair[1] \in popularity_csv.columns}
                    cell == AppendedRows[k][track_col]
                IN  /\ sources # {} =>
                        \A pair \in sources : cell = popularity_csv.rows[k][pair[1]]
                    /\ sources = {} => cell = NaN
                    /\ cell # NaN =>
                        \E pair \in MappedPairs : cell = <<"popularity", cell[2], pair[1]>>

\* C19 witness: a created row holds the mapped values, a null for a tracks
\* column without a source and the null of the popularity row.
C19_Witness ==
    /\ pc = "append_done"
    /\ tracks_csv.columns = ExpectedTracksCols
    /\ popularity_csv.columns = {"track_id", "year", "popularity"}
    /\ Len(tracks_csv.rows) = 1 /\ Len(popularity_csv.rows) = 2
    /\ merged_csv.rows[2]["id"] = <<"popularity", "r1", "track_id">>
    /\ merged_csv.rows[2]["year"] = <<"popularity", "r1", "year">>
    /\ merged_csv.rows[2]["name"] = NaN
    /\ merged_csv.rows[2]["album"] = NaN
    /\ merged_csv.rows[3]["year"] = NaN

\* C17: whatever the cells of the column 'artists' are, process_music_csv
\* gives every row a main artist or None, keeps every row and writes the
\* output file.
C17_EveryRowRecovered ==
    pc = "music_done" =>
        /\ music_returned = "frame"
        /\ music_out.written
        /\ Len(music_out.rows) = Len(music_csv.rows)

\* C12: when a mapped column is missing from the popularity table or from
\* the tracks table, merge_csv_files reports failure to its caller and
\* writes no output file.
C12_MissingColumnAborts ==
    (/\ pc = "append_done"
     /\ \/ \E pop_col \in MappedPopColumns : pop_col \notin popularity_csv.columns
        \/ \E pop_col \in MappedPopColumns : ColumnMapping[pop_col] \notin tracks_csv.columns)
    => /\ merge_returned # "True"
       /\ ~merged_csv.written

\* C23: no two rows of the artists table written by process_csv_files have
\* the same artist_id.
C23_ArtistIdsUnique ==
    pc = "artists_done" =>
        \A k, l \in 1..Len(artists_df.rows) :
            artists_df.rows[k].artist_id = artists_df.rows[l].artist_id => k = l

\* The artist_id the claim gives a cell of an artists column: null for a
\* null cell, else one id per comma-separated piece, in order, each the
\* digest of the trimmed lower-cased piece.
AlignedIds(cell) ==
    IF cell = NaN THEN None
    ELSE LET pieces == SplitOn(cell, ",")
         IN  <<"joined", [k \in 1..Len(pieces) |-> Md5HexDigest(Lower(Strip(pieces[k])))]>>

\* C24: in both tables written by process_csv_files every row keeps its
\* artists cell and its position, and its artist_id is null for a null cell
\* and otherwise the list of one id per comma-separated piece, in order.
C24_ArtistIdsAligned ==
    pc = "artists_done" =>
        /\ Len(tracks_with_id.rows) = Len(tracks_df)
        /\ Len(charts_with_id.rows) = Len(charts_df)
        /\ \A i \in 1..Len(tracks_df) :
            /\ tracks_with_id.rows[i].artists = tracks_df[i]
            /\ tracks_with_id.rows[i].artist_id = AlignedIds(tracks_df[i])
        /\ \A i \in 1..Len(charts_df) :
            /\ charts_with_id.rows[i].artists = charts_df[i]
            /\ charts_with_id.rows[i].artist_id = AlignedIds(charts_df[i])

\* C24 witness: a tracks row with two pieces got two ids in order, a null
\* tracks row got none, and a charts row got the id of its own piece.
C24_Witness ==
    /\ pc = "artists_done"
    /\ tracks_df = << <<"1", ",", " ", "e">>, NaN >>
    /\ charts_df = << <<"1">> >>
    /\ tracks_with_id.rows[1].artist_id =
          <<"joined", << <<"md5", 32, <<"1">>>>, <<"md5", 32, <<"e">>>> >> >>
    /\ tracks_with_id.rows[2].artist_id = None
    /\ charts_with_id.rows[1].artist_id = <<"joined", << <<"md5", 32, <<"1">>>> >> >>

\* The first line of a file with its line ending, as the characters stored.
FirstLineOf(chars) ==
    IF \A i \in 1..Len(chars) : chars[i] \notin {"lf", "cr"} THEN chars
    ELSE LET at == CHOOSE i \in 1..Len(chars) :
                      chars[i] \in {"lf", "cr"}
                      /\ \A j \in 1..(i - 1) : chars[j] \notin {"lf", "cr"}
         IN  IF chars[at] = "cr" /\ at < Len(chars) /\ chars[at + 1] = "lf"
             THEN SubSeq(chars, 1, at + 1)
             ELSE SubSeq(chars, 1, at)

\* A line without its line ending.
Body(line) ==
    IF line # <<>> /\ line[Len(line)] = "lf" THEN SubSeq(line, 1, Len(line) - 1) ELSE line

SeparatorWords ==
    {<<"x">>, <<"f", "e", "a", "t">>, <<"f", "e", "a", "t", ".">>,
     <<"f", "e", "a", "t", "u", "r", "i", "n", "g">>, <<"&">>}

\* The text holds a separator word with whitespace on both sides, in any
\* letter case.
HasSeparatorWord(chars) ==
    \E i \in 1..Len(chars) :
        /\ IsSpace(chars[i])
        /\ \E word \in SeparatorWords : WordThenSpace(Drop(chars, i), word)

\* C21: the result of clean_artist_name on a non-null cell holds no quote,
\* no comma and no whitespace-delimited separator word, and cleaning it
\* again changes nothing.
C21_CleanedHasNoSeparatorAndIsStable ==
    (pc \in {"clean_done", "main_done"} /\ raw_artist # NaN) =>
        /\ \A i \in 1..Len(cleaned) : cleaned[i] \notin {"'", "dquote", ","}
        /\ ~HasSeparatorWord(cleaned)
        /\ CleanArtistName(cleaned) = cleaned

\* Collaborator names and the separators that join them.
CollaboratorNames == {<<"e">>, <<"e", "-", "e">>, <<"'", "e", "'">>}
RecognisedSeparators ==
    {<<" ", "x", " ">>, <<" ", "f", "e", "a", "t", ".", " ">>,
     <<" ", "f", "e", "a", "t", "u", "r", "i", "n", "g", " ">>, <<" ", "&", " ">>, <<",">>}

\* C22: for a cell made of one collaborator name, or of two joined by a
\* recognised separator, extract_main_artist of the cleaned cell is the
\* first name, trimmed and without quotes.
C22_MainArtistIsFirstCollaborator ==
    pc = "main_done" =>
        \A first \in CollaboratorNames :
            (\/ raw_artist = first
             \/ \E sep \in RecognisedSeparators, second \in CollaboratorNames :
                    raw_artist = first \o sep \o second)
            => main_artist = Strip(RemoveQuotes(first))

====
